---- MODULE Spec2Model ----
(***************************************************************************)
(* Model of the two FastAPI applications of the repository:                *)
(*   main.py                    HTTP-only scraper: LinkedIn endpoints,     *)
(*                              then the RSS feed, then GitHub Jobs        *)
(*   fresh_linkedin_scraper.py  rendered-page scraper driving a headless   *)
(*                              Chrome session                             *)
(* One GET /scrape/ request is followed from validation to the response.   *)
(* Text is a sequence of tokens; the token " " is whitespace.              *)
(***************************************************************************)
EXTENDS Integers, Sequences, FiniteSets, TLC

VARIABLES
    app,          \* which application serves the request: "main" or "fresh"
    pc,           \* position of the request handler
    keyword,      \* query parameter keyword
    max_jobs,     \* query parameter max_jobs
    calls,        \* strategies attempted so far, in order, with their outcome
    epIdx,        \* main.py: index of the next endpoint of the endpoint loop
    job_cards,    \* fragments (cards, feed entries, API items) of the last strategy
    jobs,         \* records the handler holds
    driver,       \* fresh: "none", "open", "closed" or "quit_failed"
    quitAttempts, \* fresh: number of driver.quit() calls
    outcome,      \* fresh: what the try/except block decided: "none", "return", "raise500"
    response      \* [status, body]; status 0 while the request is running

vars == <<app, pc, keyword, max_jobs, calls, epIdx, job_cards, jobs, driver,
          quitAttempts, outcome, response>>

----
\* Bounds of the model

MaxKeywordLen == 1
MaxJobs == 2
MaxCards == 2
MaxEntries == 2
MaxItems == 2

\* Program constants

NumEndpoints == 3

----
\* Python built-ins used by the handlers

WS == " "

RECURSIVE LStrip(_)
LStrip(s) == IF s # <<>> /\ Head(s) = WS THEN LStrip(Tail(s)) ELSE s

RECURSIVE RStrip(_)
RStrip(s) == IF s # <<>> /\ s[Len(s)] = WS THEN RStrip(SubSeq(s, 1, Len(s) - 1)) ELSE s

\* str.strip()
Strip(s) == RStrip(LStrip(s))

\* seq[:n], Python semantics: a negative n counts from the end
PySliceTo(s, n) ==
    IF n >= 0 THEN SubSeq(s, 1, IF n < Len(s) THEN n ELSE Len(s))
    ELSE SubSeq(s, 1, IF Len(s) + n > 0 THEN Len(s) + n ELSE 0)

None == <<"<None>">>
NotSpecified == <<"Not specified">>

\* truthiness of an Optional[str]
Truthy(x) == x # None /\ x # <<>>

\* x or default
Or(x, default) == IF Truthy(x) THEN x ELSE default

\* dict.get(key, default)
Get(d, k, default) == IF k \in DOMAIN d THEN d[k] ELSE default

SeqsUpTo(S, n) == UNION {[1..k -> S] : k \in 0..n}

Range(s) == {s[i] : i \in 1..Len(s)}

----
\* Markup.  A page body is the sequence of its listing containers in document
\* order; a container (card) is [cont, elems]: the container selectors it
\* matches and its descendant elements in document order; an element is
\* [tag, sel, text, href]: sel is the set of tag/class selectors it matches,
\* href is None when the attribute is absent.

HrefJobs == "a[href*=/jobs/]"
Origin == "https://www.linkedin.com"
JobsPath == "/jobs/"

\* Tag.select / Tag.select_one: does element e match selector s
Matches(e, s) ==
    \/ s \in e.sel
    \/ s = HrefJobs /\ e.tag = "a" /\ e.href # None /\ JobsPath \in Range(e.href)

\* soup.select(selector): the matching containers in document order
RECURSIVE Select(_, _)
Select(page, s) ==
    IF page = <<>> THEN <<>>
    ELSE (IF s \in Head(page).cont THEN <<Head(page)>> ELSE <<>>) \o Select(Tail(page), s)

NoElem == [tag |-> "<None>", sel |-> {}, text |-> None, href |-> None]

\* card.select_one(group): the first element in document order that matches
\* any selector of the comma-separated group; NoElem where Python gives None
RECURSIVE SelectOneIn(_, _)
SelectOneIn(elems, group) ==
    IF elems = <<>> THEN NoElem
    ELSE IF \E s \in group : Matches(Head(elems), s) THEN Head(elems)
    ELSE SelectOneIn(Tail(elems), group)

SelectOne(card, group) == SelectOneIn(card.elems, group)

\* elem.get_text(strip=True)
GetText(e) == Strip(e.text)

\* link.startswith('/')
StartsWithSlash(link) == link # <<>> /\ Head(link) \in {JobsPath, "/"}

\* the "ensure full URL" rewrite, main.py:103 and fresh_linkedin_scraper.py:188
FullUrl(link) == IF Truthy(link) /\ StartsWithSlash(link) THEN <<Origin>> \o link ELSE link

Record(title, company, location, link, platform) ==
    [jobTitle |-> title, company |-> company, location |-> location,
     experience |-> NotSpecified, applyLink |-> link, platform |-> platform]

LinkedIn == <<"LinkedIn">>
GitHubJobs == <<"GitHub Jobs">>

----
\* main.py, scrape_linkedin_jobs: the selectors

selectors == <<"div.base-card", "li.jobs-search-results__list-item",
               "div.job-search-card", "section.jobs-search-results__list-item",
               "div[data-entity-urn*=jobPosting]", "div.job-result-card">>

TitleGroup == {"h3.base-search-card__title", "h3.job-search-card__title",
               "h3[class*=title]", "h3"}
CompanyGroup == {"h4.base-search-card__subtitle", "h4.job-search-card__subtitle",
                 "a[class*=company]", "h4"}
LocationGroup == {"span.job-search-card__location", "span[class*=location]",
                  "div[class*=location]", "span"}
LinkGroup == {"a.base-card__full-link", "a.job-search-card__link", HrefJobs}

\* main.py:93-114: one card to at most one record
ParseCard(card) ==
    LET title_elem == SelectOne(card, TitleGroup)
        company_elem == SelectOne(card, CompanyGroup)
        location_elem == SelectOne(card, LocationGroup)
        link_elem == SelectOne(card, LinkGroup)
        title == IF title_elem # NoElem THEN GetText(title_elem) ELSE None
        company == IF company_elem # NoElem THEN GetText(company_elem) ELSE None
        location == IF location_elem # NoElem THEN GetText(location_elem) ELSE None
        link == FullUrl(IF link_elem # NoElem THEN link_elem.href ELSE None)
    IN  IF Truthy(title) /\ Truthy(link)
        THEN <<Record(title, Or(company, NotSpecified), Or(location, NotSpecified),
                      link, LinkedIn)>>
        ELSE <<>>

\* main.py:91-118: the loop over job_cards[:max_jobs]
RECURSIVE ParseCards(_)
ParseCards(cards) ==
    IF cards = <<>> THEN <<>> ELSE ParseCard(Head(cards)) \o ParseCards(Tail(cards))

\* main.py:86-121: the loop over the selectors for one response body.
\* acc is the list `jobs` on entry; the result tells whether line 121 returned.
RECURSIVE ScanSelectors(_, _, _, _)
ScanSelectors(page, sels, acc, n) ==
    IF sels = <<>> THEN [returned |-> FALSE, jobs |-> acc, cards |-> <<>>, parsed |-> 0]
    ELSE LET found == Select(page, Head(sels))
             acc2 == IF found # <<>> THEN acc \o ParseCards(PySliceTo(found, n)) ELSE acc
         IN  IF found # <<>> /\ acc2 # <<>>
             THEN [returned |-> TRUE, jobs |-> PySliceTo(acc2, n), cards |-> found,
                   parsed |-> Len(acc2)]
             ELSE ScanSelectors(page, Tail(sels), acc2, n)

----
\* fresh_linkedin_scraper.py, scrape_data: the selectors

job_selectors == <<"div.base-card", "li.jobs-search-results__list-item",
                   "div.job-search-card", "div[data-entity-urn*=jobPosting]",
                   "section.jobs-search-results__list-item">>

title_selectors == <<"h3.base-search-card__title", "h3.job-search-card__title",
                     "h3[class*=title]", "h3">>
company_selectors == <<"h4.base-search-card__subtitle", "h4.job-search-card__subtitle",
                       "a[class*=company]", "h4">>
location_selectors == <<"span.job-search-card__location", "span[class*=location]",
                        "div[class*=location]", "span">>
link_selectors == <<"a.base-card__full-link", "a.job-search-card__link", HrefJobs>>

\* fresh_linkedin_scraper.py:118-123: every selector's matches, concatenated
RECURSIVE LocateCards(_, _)
LocateCards(page, sels) ==
    IF sels = <<>> THEN <<>>
    ELSE Select(page, Head(sels)) \o LocateCards(page, Tail(sels))

\* fresh_linkedin_scraper.py:157-179: first selector whose element has text
RECURSIVE FindText(_, _)
FindText(card, sels) ==
    IF sels = <<>> THEN None
    ELSE LET elem == SelectOne(card, {Head(sels)})
         IN  IF elem # NoElem /\ Truthy(GetText(elem)) THEN GetText(elem)
             ELSE FindText(card, Tail(sels))

\* fresh_linkedin_scraper.py:181-190: first selector whose element has an href
RECURSIVE FindLink(_, _)
FindLink(card, sels) ==
    IF sels = <<>> THEN None
    ELSE LET link_elem == SelectOne(card, {Head(sels)})
         IN  IF link_elem # NoElem /\ Truthy(link_elem.href) THEN FullUrl(link_elem.href)
             ELSE FindLink(card, Tail(sels))

\* fresh_linkedin_scraper.py:192-200: job_data of one card, <<>> when skipped
JobData(card) ==
    LET title == FindText(card, title_selectors)
        company == FindText(card, company_selectors)
        location == FindText(card, location_selectors)
        link == FindLink(card, link_selectors)
    IN  IF Truthy(title) /\ Truthy(link)
        THEN <<Record(Or(title, NotSpecified), Or(company, NotSpecified),
                      Or(location, NotSpecified), Or(link, <<>>), LinkedIn)>>
        ELSE <<>>

\* fresh_linkedin_scraper.py:126-208: unique_jobs as the list of its values in
\* insertion order (a dict keeps insertion order); acc is the dict so far
RECURSIVE UniqueJobs(_, _)
UniqueJobs(cards, acc) ==
    IF cards = <<>> THEN acc
    ELSE LET job_data == JobData(Head(cards))
             fresh == job_data # <<>> /\
                      \A i \in 1..Len(acc) : acc[i].applyLink # job_data[1].applyLink
         IN  UniqueJobs(Tail(cards), IF fresh THEN acc \o job_data ELSE acc)

----
\* main.py, scrape_linkedin_rss: the description patterns
\* r'Company:?\s*([^\n<]+)' and r'Location:?\s*([^\n<]+)', on tokens

NL == "\n"
LT == "<"
COLON == ":"
\* re.IGNORECASE
CompanyLabels == {"Company", "company", "COMPANY"}
LocationLabels == {"Location", "location", "LOCATION"}

\* length of the longest prefix of whitespace tokens, what \s* takes greedily
RECURSIVE WsPrefixLen(_)
WsPrefixLen(s) ==
    IF s # <<>> /\ Head(s) \in {WS, NL} THEN 1 + WsPrefixLen(Tail(s)) ELSE 0

\* the longest prefix without a newline or '<', what [^\n<]+ takes greedily
RECURSIVE Run(_)
Run(s) == IF s # <<>> /\ Head(s) \notin {NL, LT} THEN <<Head(s)>> \o Run(Tail(s)) ELSE <<>>

\* \s*([^\n<]+) on rest: \s* first takes j whitespace tokens and gives them
\* back one by one until the group has at least one token; <<>> when the
\* pattern does not match here
RECURSIVE Capture(_, _)
Capture(rest, j) ==
    LET cap == Run(SubSeq(rest, j + 1, Len(rest)))
    IN  IF cap # <<>> THEN cap
        ELSE IF j = 0 THEN <<>> ELSE Capture(rest, j - 1)

\* :?\s*([^\n<]+) right after a label: the colon is taken if it is there and
\* given back if the rest does not match without it
AfterLabel(rest) ==
    LET taken == IF rest # <<>> /\ Head(rest) = COLON
                 THEN Capture(Tail(rest), WsPrefixLen(Tail(rest))) ELSE <<>>
    IN  IF taken # <<>> THEN taken ELSE Capture(rest, WsPrefixLen(rest))

\* re.search(pattern, description): group 1 of the leftmost match, or None
RECURSIVE Search(_, _)
Search(desc, labels) ==
    IF desc = <<>> THEN None
    ELSE IF Head(desc) \in labels /\ AfterLabel(Tail(desc)) # <<>>
    THEN AfterLabel(Tail(desc))
    ELSE Search(Tail(desc), labels)

\* main.py:145-169: one feed entry to one record
EntryRecord(entry) ==
    LET title == Get(entry, "title", <<>>)
        link == Get(entry, "link", <<>>)
        description == Get(entry, "description", <<>>)
        company_match == Search(description, CompanyLabels)
        location_match == Search(description, LocationLabels)
        company == IF Truthy(description) /\ company_match # None
                   THEN Strip(company_match) ELSE NotSpecified
        location == IF Truthy(description) /\ location_match # None
                    THEN Strip(location_match) ELSE NotSpecified
    IN  Record(title, company, location, link, LinkedIn)

\* main.py:143-175: the loop over feed.entries[:max_jobs]
RssJobs(entries, n) ==
    LET taken == PySliceTo(entries, n)
    IN  [i \in 1..Len(taken) |-> EntryRecord(taken[i])]

\* main.py:192-200: the loop over data[:max_jobs]
GithubJobs(data, n) ==
    LET taken == PySliceTo(data, n)
    IN  [i \in 1..Len(taken) |->
            Record(Get(taken[i], "title", <<>>), Get(taken[i], "company", NotSpecified),
                   Get(taken[i], "location", NotSpecified), Get(taken[i], "url", <<>>),
                   GitHubJobs)]

----
\* The inputs: what the network can answer

Keywords == SeqsUpTo({WS, "python"}, MaxKeywordLen)

\* max_jobs is any int: a negative one, zero, and the positive ones up to MaxJobs
MaxJobsValues == {-1} \cup 0..MaxJobs

H3(cls, text) == [tag |-> "h3", sel |-> cls \cup {"h3"}, text |-> text, href |-> None]
H4(cls, text) == [tag |-> "h4", sel |-> cls \cup {"h4"}, text |-> text, href |-> None]
Span(cls, text) == [tag |-> "span", sel |-> cls \cup {"span"}, text |-> text, href |-> None]
A(cls, href) == [tag |-> "a", sel |-> cls, text |-> <<>>, href |-> href]

BaseTitle == {"h3.base-search-card__title", "h3[class*=title]"}
BaseSubtitle == {"h4.base-search-card__subtitle"}
CardLocation == {"span.job-search-card__location", "span[class*=location]"}

CardPool == {
    \* a complete card with a root-relative link
    [cont |-> {"div.base-card"},
     elems |-> <<A({"a.base-card__full-link"}, <<JobsPath, "1">>),
                 H3(BaseTitle, <<WS, "Dev", WS>>), H4(BaseSubtitle, <<"Acme">>),
                 Span(CardLocation, <<"NYC">>)>>],
    \* the same job again, absolute link, in a container two selectors match
    [cont |-> {"div.base-card", "div.job-search-card"},
     elems |-> <<A({"a.job-search-card__link"}, <<Origin, JobsPath, "1">>),
                 H3({}, <<"Dev">>)>>],
    \* no title element
    [cont |-> {"div.base-card"},
     elems |-> <<A({"a.base-card__full-link"}, <<JobsPath, "2">>),
                 H4({}, <<"Initech">>)>>],
    \* an empty plain h3 before the titled h3
    [cont |-> {"li.jobs-search-results__list-item"},
     elems |-> <<H3({}, <<WS>>), H3(BaseTitle, <<"QA">>),
                 A({}, <<Origin, JobsPath, "2">>)>>],
    \* an anchor with an empty href before the job anchor; plain span as location
    [cont |-> {"div.base-card"},
     elems |-> <<H3({"h3.job-search-card__title", "h3[class*=title]"}, <<"Ops">>),
                 A({"a.job-search-card__link"}, <<>>), A({}, <<JobsPath, "3">>),
                 Span({}, <<WS>>), Span(CardLocation, <<"Remote">>)>>],
    \* a relative link that does not start with a slash
    [cont |-> {"div.job-result-card", "div[data-entity-urn*=jobPosting]"},
     elems |-> <<H3(BaseTitle, <<"SRE">>), A({"a.base-card__full-link"}, <<"view/", "4">>)>>]
}

Pages == SeqsUpTo(CardPool, MaxCards)

EntryPool == {
    [title |-> <<"Dev">>, link |-> <<Origin, JobsPath, "1">>,
     description |-> <<"Company", COLON, WS, "Acme", WS, NL, "Location", COLON, WS, "NYC">>],
    \* the same link again
    [title |-> <<"Dev II">>, link |-> <<Origin, JobsPath, "1">>,
     description |-> <<"company", "Acme", WS, "Location", COLON, NL, LT, "NYC">>],
    \* no title
    [link |-> <<Origin, JobsPath, "2">>, description |-> <<>>],
    \* no link, relative link in the next one
    [title |-> <<"QA">>],
    [title |-> <<"SRE">>, link |-> <<JobsPath, "4">>]
}

Feeds == SeqsUpTo(EntryPool, MaxEntries)

ItemPool == {
    [title |-> <<"Dev">>, company |-> <<"Acme">>, location |-> <<"NYC">>,
     url |-> <<"https://jobs.github.com", "/positions/", "1">>],
    [title |-> <<"Dev">>, url |-> <<"https://jobs.github.com", "/positions/", "1">>],
    [company |-> <<"Initech">>]
}

Datas == SeqsUpTo(ItemPool, MaxItems)

----
\* The request

\* the fault C5 excludes: `not keyword`, which lets a keyword of spaces through
BlankNoStrip(k) == k = <<>>

\* `not keyword.strip()`, main.py:214 and fresh_linkedin_scraper.py:56
Blank(k) == Strip(k) = <<>>

Running == [status |-> 0, body |-> <<>>]
ClientError == [status |-> 400, body |-> <<>>]
ServerError == [status |-> 500, body |-> <<>>]
Ok(list) == [status |-> 200, body |-> list]

\* one entry of calls: yielded counts the records the strategy built, returned
\* the records it handed back to its caller
Attempt(strategy, idx, result, yielded, returned) ==
    [strategy |-> strategy, idx |-> idx, result |-> result, yielded |-> yielded,
     returned |-> returned]

Init ==
    /\ app \in {"main", "fresh"}
    /\ pc = "start"
    /\ keyword \in Keywords
    /\ max_jobs \in MaxJobsValues
    /\ calls = <<>>
    /\ epIdx = 1
    /\ job_cards = <<>>
    /\ jobs = <<>>
    /\ driver = "none"
    /\ quitAttempts = 0
    /\ outcome = "none"
    /\ response = Running

----
\* main.py

\* main.py:214-220: scrape_data up to the call of scrape_linkedin_jobs
MainValidate ==
    /\ app = "main" /\ pc = "start"
    /\ IF Blank(keyword)
       THEN /\ response' = ClientError
            /\ pc' = "done"
       ELSE /\ response' = response
            /\ pc' = "endpoints"
    /\ UNCHANGED <<app, keyword, max_jobs, calls, epIdx, job_cards, jobs, driver,
                   quitAttempts, outcome>>

\* requests.get(endpoint, headers=headers, timeout=15)
HttpReplies ==
    {[kind |-> "exception"], [kind |-> "status", status |-> 404]}
        \cup {[kind |-> "status", status |-> 200, page |-> p] : p \in Pages}

\* main.py:68 and 128: the next endpoint, and the feed after the last one
NextEndpoint == IF epIdx = NumEndpoints THEN "rss" ELSE "endpoints"

\* the fault C8 excludes: the loop without the return of line 121, which asks
\* the next endpoint although this one gave records
TryEndpointNoReturn ==
    /\ app = "main" /\ pc = "endpoints" /\ epIdx <= NumEndpoints
    /\ \E r \in HttpReplies :
        IF r.kind = "exception" \/ r.status # 200
        THEN /\ calls' = Append(calls, Attempt("http", epIdx,
                            IF r.kind = "exception" THEN "exception" ELSE "non200", 0, 0))
             /\ epIdx' = epIdx + 1
             /\ pc' = NextEndpoint
             /\ UNCHANGED <<jobs, job_cards>>
        ELSE LET scan == ScanSelectors(r.page, selectors, jobs, max_jobs)
             IN  /\ calls' = Append(calls, Attempt("http", epIdx, "200", scan.parsed,
                                            IF scan.returned THEN Len(scan.jobs) ELSE 0))
                 /\ jobs' = scan.jobs
                 /\ job_cards' = scan.cards
                 /\ epIdx' = epIdx + 1
                 /\ pc' = NextEndpoint
    /\ UNCHANGED <<app, keyword, max_jobs, driver, quitAttempts, outcome, response>>

\* main.py:68-128: one iteration of the loop over the endpoints.  Line 121
\* returns from scrape_linkedin_jobs; after the last endpoint line 128 goes on
\* to the feed.  The inner handler of line 123 catches whatever an iteration
\* raises, so the outer handler of lines 130-132 has nothing left to catch.
TryEndpoint ==
    /\ app = "main" /\ pc = "endpoints" /\ epIdx <= NumEndpoints
    /\ \E r \in HttpReplies :
        IF r.kind = "exception" \/ r.status # 200
        THEN /\ calls' = Append(calls, Attempt("http", epIdx,
                            IF r.kind = "exception" THEN "exception" ELSE "non200", 0, 0))
             /\ epIdx' = epIdx + 1
             /\ pc' = NextEndpoint
             /\ UNCHANGED <<jobs, job_cards>>
        ELSE LET scan == ScanSelectors(r.page, selectors, jobs, max_jobs)
             IN  /\ calls' = Append(calls, Attempt("http", epIdx, "200", scan.parsed,
                                            IF scan.returned THEN Len(scan.jobs) ELSE 0))
                 /\ jobs' = scan.jobs
                 /\ job_cards' = scan.cards
                 /\ IF scan.returned
                    THEN /\ pc' = "linkedin_returned"
                         /\ epIdx' = epIdx
                    ELSE /\ pc' = NextEndpoint
                         /\ epIdx' = epIdx + 1
    /\ UNCHANGED <<app, keyword, max_jobs, driver, quitAttempts, outcome, response>>

\* feedparser.parse(rss_url)
FeedReplies == {[kind |-> "exception"]} \cup {[kind |-> "feed", entries |-> f] : f \in Feeds}

\* main.py:134-179: scrape_linkedin_rss, whose result scrape_linkedin_jobs returns
ScrapeLinkedinRss ==
    /\ app = "main" /\ pc = "rss"
    /\ \E r \in FeedReplies :
        IF r.kind = "exception"
        THEN /\ calls' = Append(calls, Attempt("rss", 1, "exception", 0, 0))
             /\ jobs' = <<>>
             /\ job_cards' = <<>>
        ELSE /\ jobs' = RssJobs(r.entries, max_jobs)
             /\ job_cards' = r.entries
             /\ calls' = Append(calls, Attempt("rss", 1, "ok", Len(jobs'), Len(jobs')))
    /\ pc' = "linkedin_returned"
    /\ UNCHANGED <<app, keyword, max_jobs, epIdx, driver, quitAttempts, outcome, response>>

\* the fault C4 excludes: the fallback without its guard
AlwaysFallback(list) == TRUE

\* `if not jobs:`, main.py:223
NeedsFallback(list) == list = <<>>

\* requests.get(url, params=params, timeout=10) and response.json()
ApiReplies ==
    {[kind |-> "exception"], [kind |-> "status", status |-> 404]}
        \cup {[kind |-> "status", status |-> 200, data |-> d] : d \in Datas}

\* the fault C6 excludes in main.py: scrape_github_jobs without its try/except,
\* whose exception the middleware turns into a 500
GithubPropagates ==
    /\ app = "main" /\ pc = "linkedin_returned" /\ NeedsFallback(jobs)
    /\ \E r \in ApiReplies :
        IF r.kind = "exception"
        THEN /\ calls' = Append(calls, Attempt("github", 1, "exception", 0, 0))
             /\ jobs' = <<>>
             /\ job_cards' = <<>>
             /\ response' = ServerError
             /\ pc' = "done"
        ELSE /\ response' = response
             /\ pc' = "github_returned"
             /\ IF r.status # 200
                THEN /\ calls' = Append(calls, Attempt("github", 1, "non200", 0, 0))
                     /\ jobs' = <<>>
                     /\ job_cards' = <<>>
                ELSE /\ jobs' = GithubJobs(r.data, max_jobs)
                     /\ job_cards' = r.data
                     /\ calls' = Append(calls, Attempt("github", 1, "200", Len(jobs'), Len(jobs')))
    /\ UNCHANGED <<app, keyword, max_jobs, epIdx, driver, quitAttempts, outcome>>

\* main.py:223-224 and 181-206: the fallback to scrape_github_jobs
ScrapeGithubJobs ==
    /\ app = "main" /\ pc = "linkedin_returned" /\ NeedsFallback(jobs)
    /\ \E r \in ApiReplies :
        IF r.kind = "exception"
        THEN /\ calls' = Append(calls, Attempt("github", 1, "exception", 0, 0))
             /\ jobs' = <<>>
             /\ job_cards' = <<>>
        ELSE IF r.status # 200
        THEN /\ calls' = Append(calls, Attempt("github", 1, "non200", 0, 0))
             /\ jobs' = <<>>
             /\ job_cards' = <<>>
        ELSE /\ jobs' = GithubJobs(r.data, max_jobs)
             /\ job_cards' = r.data
             /\ calls' = Append(calls, Attempt("github", 1, "200", Len(jobs'), Len(jobs')))
    /\ pc' = "github_returned"
    /\ UNCHANGED <<app, keyword, max_jobs, epIdx, driver, quitAttempts, outcome, response>>

\* main.py:226-227: return jobs
ReturnJobs ==
    /\ app = "main"
    /\ \/ pc = "linkedin_returned" /\ ~NeedsFallback(jobs)
       \/ pc = "github_returned"
    /\ response' = Ok(jobs)
    /\ pc' = "done"
    /\ UNCHANGED <<app, keyword, max_jobs, calls, epIdx, job_cards, jobs, driver,
                   quitAttempts, outcome>>

----
\* fresh_linkedin_scraper.py

\* fresh_linkedin_scraper.py:56-61: scrape_data up to the try block
FreshValidate ==
    /\ app = "fresh" /\ pc = "start"
    /\ IF Blank(keyword)
       THEN /\ response' = ClientError
            /\ pc' = "done"
       ELSE /\ response' = response
            /\ pc' = "init_driver"
    /\ UNCHANGED <<app, keyword, max_jobs, calls, epIdx, job_cards, jobs, driver,
                   quitAttempts, outcome>>

\* fresh_linkedin_scraper.py:217-222: the except clause, entered from a step
\* of the try block that raised
Raise500 ==
    /\ calls' = <<Attempt("browser", 1, "exception", 0, 0)>>
    /\ outcome' = "raise500"
    /\ pc' = "finally"

\* fresh_linkedin_scraper.py:62-82: uc.Chrome(...) gives a session or raises
InitDriver ==
    /\ app = "fresh" /\ pc = "init_driver"
    /\ \/ /\ driver' = "open"
          /\ calls' = <<Attempt("browser", 1, "running", 0, 0)>>
          /\ pc' = "navigate"
          /\ outcome' = outcome
       \/ /\ driver' = driver
          /\ Raise500
    /\ UNCHANGED <<app, keyword, max_jobs, epIdx, job_cards, jobs, quitAttempts, response>>

\* fresh_linkedin_scraper.py:84-98: driver.get and the login-wall check, which
\* only logs
Navigate ==
    /\ app = "fresh" /\ pc = "navigate"
    /\ \/ /\ pc' = "scroll"
          /\ UNCHANGED <<calls, outcome>>
       \/ Raise500
    /\ UNCHANGED <<app, keyword, max_jobs, epIdx, job_cards, jobs, driver, quitAttempts,
                   response>>

\* fresh_linkedin_scraper.py:100-103: driver.execute_script
Scroll ==
    /\ app = "fresh" /\ pc = "scroll"
    /\ \/ /\ pc' = "parse"
          /\ UNCHANGED <<calls, outcome>>
       \/ Raise500
    /\ UNCHANGED <<app, keyword, max_jobs, epIdx, job_cards, jobs, driver, quitAttempts,
                   response>>

\* fresh_linkedin_scraper.py:105-215: driver.page_source, the cards, unique_jobs
\* and `return linkedin_jobs`
ParsePage ==
    /\ app = "fresh" /\ pc = "parse"
    /\ \/ \E page \in Pages :
            /\ job_cards' = LocateCards(page, job_selectors)
            /\ jobs' = PySliceTo(UniqueJobs(job_cards', <<>>), max_jobs)
            /\ calls' = <<Attempt("browser", 1, "ok", Len(UniqueJobs(job_cards', <<>>)),
                                 Len(jobs'))>>
            /\ outcome' = "return"
            /\ pc' = "finally"
       \/ /\ Raise500
          /\ UNCHANGED <<job_cards, jobs>>
    /\ UNCHANGED <<app, keyword, max_jobs, epIdx, driver, quitAttempts, response>>

\* the response FastAPI sends for what the try block decided
Reply(decided, list) == IF decided = "return" THEN Ok(list) ELSE ServerError

\* the fault C7 excludes: a quit on the normal return only, which leaves the
\* session open on the error path
FinallyLeaksOnError ==
    /\ app = "fresh" /\ pc = "finally"
    /\ IF driver = "open" /\ outcome = "return"
       THEN /\ quitAttempts' = quitAttempts + 1
            /\ driver' \in {"closed", "quit_failed"}
       ELSE UNCHANGED <<driver, quitAttempts>>
    /\ response' = Reply(outcome, jobs)
    /\ pc' = "done"
    /\ UNCHANGED <<app, keyword, max_jobs, calls, epIdx, job_cards, jobs, outcome>>

\* fresh_linkedin_scraper.py:224-231: the finally clause; driver.quit() may
\* raise, which is logged and swallowed
Finally ==
    /\ app = "fresh" /\ pc = "finally"
    /\ IF driver = "open"
       THEN /\ quitAttempts' = quitAttempts + 1
            /\ driver' \in {"closed", "quit_failed"}
       ELSE UNCHANGED <<driver, quitAttempts>>
    /\ response' = Reply(outcome, jobs)
    /\ pc' = "done"
    /\ UNCHANGED <<app, keyword, max_jobs, calls, epIdx, job_cards, jobs, outcome>>

----
Next ==
    \/ MainValidate
    \/ TryEndpoint
    \/ ScrapeLinkedinRss
    \/ ScrapeGithubJobs
    \/ ReturnJobs
    \/ FreshValidate
    \/ InitDriver
    \/ Navigate
    \/ Scroll
    \/ ParsePage
    \/ Finally

Spec == Init /\ [][Next]_vars

TypeOK ==
    /\ app \in {"main", "fresh"}
    /\ pc \in {"start", "endpoints", "rss", "linkedin_returned", "github_returned",
               "init_driver", "navigate", "scroll", "parse", "finally", "done"}
    /\ epIdx \in 1..(NumEndpoints + 1)
    /\ driver \in {"none", "open", "closed", "quit_failed"}
    /\ response.status \in {0, 200, 400, 500}

----
\* The claims

Done == pc = "done"
Answered == Done /\ response.status = 200

\* the keyword is empty or only whitespace
OnlyWhitespace(k) == \A i \in 1..Len(k) : k[i] = WS

HasAttempt(P(_)) == \E i \in 1..Len(calls) : P(calls[i])

\* C1: the list returned by scrape_data is never longer than max_jobs, for
\* every max_jobs including zero and the negative ones.  Stated in its most
\* favourable form: a cap below zero is read as zero.
C1_LengthWithinCap ==
    Answered => Len(response.body) <= (IF max_jobs > 0 THEN max_jobs ELSE 0)

\* C2: no two records of the returned list have the same applyLink.
C2_NoDuplicateLinks ==
    Answered =>
        \A i, j \in 1..Len(response.body) :
            i < j => response.body[i].applyLink # response.body[j].applyLink

\* C3: every returned record has a non-empty jobTitle and a non-empty
\* applyLink, whichever strategy produced it.
C3_TitleAndLinkPresent ==
    Answered =>
        \A i \in 1..Len(response.body) :
            /\ Truthy(response.body[i].jobTitle)
            /\ Truthy(response.body[i].applyLink)

\* the place of a strategy in the fixed priority order of main.py
Rank(c) ==
    IF c.strategy = "http" THEN c.idx
    ELSE IF c.strategy = "rss" THEN NumEndpoints + 1
    ELSE NumEndpoints + 2

C5_BlankKeywordRejected ==
    OnlyWhitespace(keyword) =>
        /\ pc \in {"start", "done"}
        /\ calls = <<>>
        /\ driver = "none" /\ quitAttempts = 0
        /\ Done => response = ClientError

\* C5 witness: a keyword of one space was rejected
C5_Witness ==
    /\ Done /\ keyword = <<WS>>
    /\ response.status = 400

Failed(c) == c.result = "exception"

C7_SessionReleased ==
    app = "fresh" =>
        /\ quitAttempts <= 1
        /\ driver = "open" => response = Running /\ quitAttempts = 0
        /\ driver \in {"closed", "quit_failed"} => quitAttempts = 1
        /\ driver = "none" => quitAttempts = 0
        /\ Done /\ ~OnlyWhitespace(keyword) =>
              /\ driver # "open"
              /\ outcome \in {"return", "raise500"}
              /\ outcome = "return" => response = Ok(jobs) /\ quitAttempts = 1
              /\ outcome = "raise500" => response = ServerError

\* C7 witness: the error path with a session open, whose quit failed
C7_Witness ==
    /\ app = "fresh" /\ Done
    /\ outcome = "raise500" /\ driver = "quit_failed" /\ quitAttempts = 1

IsHttp(c) == c.strategy = "http"

\* C8: the endpoints are requested in list order, each at most once; a
\* non-200 status or an exception moves on to the next endpoint; the first
\* endpoint that yields a record ends the walk, and the records handed back
\* all come from that endpoint's body.
C8_EndpointWalk ==
    app = "main" =>
        /\ \A i \in 1..Len(calls) :
              IsHttp(calls[i]) =>
                  /\ i <= NumEndpoints /\ calls[i].idx = i
                  /\ \A h \in 1..(i - 1) : IsHttp(calls[h]) /\ calls[h].yielded = 0
                  /\ calls[i].result # "200" => calls[i].yielded = 0
                  /\ calls[i].yielded = 0 /\ i < NumEndpoints /\ pc # "endpoints" =>
                        /\ i < Len(calls)
                        /\ IsHttp(calls[i + 1]) /\ calls[i + 1].idx = i + 1
                  /\ calls[i].yielded > 0 =>
                        /\ i = Len(calls) \/ calls[i + 1].strategy = "github"
                        /\ pc # "endpoints" /\ pc # "rss"
        /\ pc = "linkedin_returned" /\ calls # <<>> /\ IsHttp(calls[Len(calls)]) =>
              /\ calls[Len(calls)].yielded > 0
              /\ \A k \in 1..Len(jobs) :
                    \E c \in 1..Len(job_cards) : ParseCard(job_cards[c]) = <<jobs[k]>>

\* C8 witness: the first endpoint failed, the second yielded the records
C8_Witness ==
    /\ app = "main" /\ Done
    /\ Len(calls) = 2
    /\ calls[1].result \in {"exception", "non200"}
    /\ IsHttp(calls[2]) /\ calls[2].yielded > 0
    /\ response.body # <<>>

----
\* What the specification asks of the result, for C9 and C10

\* the first n elements
Take(recs, n) == SubSeq(recs, 1, IF n < Len(recs) THEN n ELSE Len(recs))

\* records with a title and a link
RECURSIVE Valid(_)
Valid(recs) ==
    IF recs = <<>> THEN <<>>
    ELSE (IF Truthy(Head(recs).jobTitle) /\ Truthy(Head(recs).applyLink)
          THEN <<Head(recs)>> ELSE <<>>) \o Valid(Tail(recs))

\* first occurrence of every applyLink, order kept
RECURSIVE Dedupe(_)
Dedupe(recs) ==
    IF recs = <<>> THEN <<>>
    ELSE LET front == Dedupe(SubSeq(recs, 1, Len(recs) - 1))
             last == recs[Len(recs)]
         IN  IF \E i \in 1..Len(front) : front[i].applyLink = last.applyLink
             THEN front ELSE Append(front, last)

\* the value one locator rule gives for a field: trimmed text, or the href
RuleValue(card, rule, field) ==
    LET e == SelectOne(card, {rule})
    IN  IF e = NoElem THEN <<>>
        ELSE IF field = "link" THEN (IF e.href = None THEN <<>> ELSE e.href)
        ELSE Strip(e.text)

\* extractField of the specification: the first rule in priority order with a
\* non-empty value, else the sentinel
ExtractField(card, rules, field) ==
    LET hits == {i \in 1..Len(rules) : RuleValue(card, rules[i], field) # <<>>}
    IN  IF hits = {} THEN NotSpecified
        ELSE RuleValue(card, rules[CHOOSE i \in hits : \A h \in hits : i <= h], field)

\* the record the specification gives for one card, <<>> if title or link is missing
ExpectedRecord(card) ==
    LET t == ExtractField(card, title_selectors, "text")
        l == ExtractField(card, link_selectors, "link")
    IN  IF t = NotSpecified \/ l = NotSpecified THEN <<>>
        ELSE <<Record(t, ExtractField(card, company_selectors, "text"),
                      ExtractField(card, location_selectors, "text"), FullUrl(l), LinkedIn)>>

\* every record the last strategy builds from its fragments, before any cap
RECURSIVE CardRecords(_, _)
CardRecords(cards, byMain) ==
    IF cards = <<>> THEN <<>>
    ELSE (IF byMain THEN ParseCard(Head(cards)) ELSE JobData(Head(cards)))
            \o CardRecords(Tail(cards), byMain)

StrategyRecords ==
    IF calls = <<>> THEN <<>>
    ELSE LET s == calls[Len(calls)].strategy
         IN  IF s = "http" THEN CardRecords(job_cards, TRUE)
             ELSE IF s = "browser" THEN CardRecords(job_cards, FALSE)
             ELSE IF s = "rss" THEN RssJobs(job_cards, Len(job_cards))
             ELSE GithubJobs(job_cards, Len(job_cards))

\* C9: the output is the first max_jobs of the last strategy's valid records
\* after first-occurrence deduplication by applyLink, order kept (stated for
\* the caps that are not negative).
C9_DedupeThenTruncate ==
    Answered /\ max_jobs >= 0 =>
        response.body = Take(Dedupe(Valid(StrategyRecords)), max_jobs)

CardStrategyAnswered ==
    /\ Answered /\ calls # <<>>
    /\ calls[Len(calls)].strategy \in {"http", "browser"}
    /\ calls[Len(calls)].returned > 0

\* C10: every field of every card is extracted by the first locator rule in
\* priority order that gives a non-empty value, so every card that has a title
\* and a link under that rule is in the output with exactly those fields
\* (stated where the cap cuts off nothing).
C10_PriorityOrderExtraction ==
    CardStrategyAnswered /\ max_jobs >= Len(job_cards) =>
        /\ \A k \in 1..Len(response.body) :
              \E c \in 1..Len(job_cards) : ExpectedRecord(job_cards[c]) = <<response.body[k]>>
        /\ \A c \in 1..Len(job_cards) :
              ExpectedRecord(job_cards[c]) # <<>> =>
                  \E k \in 1..Len(response.body) :
                      response.body[k].applyLink = ExpectedRecord(job_cards[c])[1].applyLink

\* an absolute URL starts with a scheme and a host
IsAbsolute(link) == link # <<>> /\ Head(link) \in {Origin, "https://jobs.github.com"}

\* C11: the applyLink of every returned record is an absolute URL, in every
\* strategy: a relative link, root-relative or not, has been rewritten with
\* the site origin in front (stated for the records that have a link at all).
C11_LinksAbsolute ==
    Answered =>
        \A k \in 1..Len(response.body) :
            Truthy(response.body[k].applyLink) => IsAbsolute(response.body[k].applyLink)

====
